---- MODULE Spec2Model ----
(***************************************************************************)
(* Model of pymonzo/api_objects.py: the records MonzoAccount, MonzoPot,    *)
(* MonzoBalance, MonzoTransaction and MonzoMerchant, all built by          *)
(* MonzoObject.__init__, and the two pot operations deposit and withdraw.  *)
(*                                                                         *)
(* Python values are strings here: a text is itself, null is "None", a     *)
(* number is "#n", a dict is the name of the heap cell that holds it       *)
(* ("@src", ...), a datetime is "datetime(...)" and a MonzoMerchant        *)
(* instance is "<MonzoMerchant>".  A dict is a function from its keys to   *)
(* values; dicts live in heap cells so that copying and aliasing differ.   *)
(***************************************************************************)
EXTENDS Integers, Sequences, FiniteSets, TLC

VARIABLES heap, objs, err, sent, lastReq, calls, last

vars == <<heap, objs, err, sent, lastReq, calls, last>>

\* Largest number of required keys a generated mapping (nested one included) lacks.
MaxAbsent == 2
\* Largest number of deposit / withdraw calls made on one pot.
MaxCalls == 2

---------------------------------------------------------------------------
\* Values

None == "None"
MerchantObject == "<MonzoMerchant>"
Cells == {"@src", "@nested", "@resp", "@raw", "@copy", "@mraw", "@mcopy"}
Numbers == {"#0", "#7", "#100"}
Booleans == {"True", "False"}
Datetimes == {"datetime(2018,1,1,10,0,tz=UTC)", "datetime(2018,3,5,12,30,tz=UTC)"}

\* six.text_type instances
IsText(v) ==
    v \notin Cells \cup Numbers \cup Booleans \cup Datetimes \cup {None, MerchantObject}

\* dateutil.parser.parse on the texts it accepts (two spellings of one instant
\* give the same datetime); every other text is rejected.
ParseDate ==
    ("2018-01-01T10:00:00Z" :> "datetime(2018,1,1,10,0,tz=UTC)") @@
    ("2018-01-01 10:00:00+00:00" :> "datetime(2018,1,1,10,0,tz=UTC)") @@
    ("2018-03-05T12:30:00Z" :> "datetime(2018,3,5,12,30,tz=UTC)")

EmptyDict == [k \in {} |-> None]

\* bool(v): empty text, None, 0 and an empty dict are false
Truthy(h, v) ==
    /\ v \notin {"", None, "#0", "False"}
    /\ v \in Cells => DOMAIN h[v] # {}

DictPop(d, k) == [x \in DOMAIN d \ {k} |-> d[x]]

DictUpdate(d, e) ==
    [k \in DOMAIN d \cup DOMAIN e |-> IF k \in DOMAIN e THEN e[k] ELSE d[k]]

Restrict(d, S) == [k \in S \cap DOMAIN d |-> d[k]]

Range(s) == {s[i] : i \in DOMAIN s}

---------------------------------------------------------------------------
\* Classes

Classes == {"MonzoAccount", "MonzoPot", "MonzoBalance", "MonzoTransaction",
            "MonzoMerchant"}

RequiredKeys ==
    [MonzoAccount |-> <<"id", "description", "created">>,
     MonzoPot |-> <<"id", "name", "created", "style", "balance", "currency",
                    "updated", "deleted">>,
     MonzoBalance |-> <<"balance", "currency", "spend_today">>,
     MonzoTransaction |-> <<"amount", "created", "currency", "description",
                            "id", "merchant", "metadata", "notes", "is_load">>,
     MonzoMerchant |-> <<"address", "created", "group_id", "id",
                         "logo", "emoji", "name", "category">>]

\* attributes the class body sets to None
ClassAttrs ==
    [MonzoAccount |-> {"id", "description", "created"},
     MonzoPot |-> {"id", "name", "created", "style", "balance", "currency",
                   "updated", "deleted"},
     MonzoBalance |-> {},
     MonzoTransaction |-> {},
     MonzoMerchant |-> {}]

\* An instance: its class, the data attributes of its __dict__, the cell
\* _raw_data refers to and _context ("unset" until __init__ assigns them).
NoObject == [cls |-> "none", dict |-> EmptyDict, raw |-> "unset", ctx |-> "unset"]
NewObject(cls) == [NoObject EXCEPT !.cls = cls]

HasAttr(o, k) == k \in DOMAIN o.dict \/ (o.cls \in Classes /\ k \in ClassAttrs[o.cls])
GetAttr(o, k) == IF k \in DOMAIN o.dict THEN o.dict[k] ELSE None

---------------------------------------------------------------------------
\* Exceptions

NoErr == [exc |-> "none", what |-> "", keys |-> <<>>]
MissingKeysError(keys) == [exc |-> "ValueError", what |-> "missing keys", keys |-> keys]
ParseDateError(v) ==
    [exc |-> IF IsText(v) THEN "ValueError" ELSE "TypeError",
     what |-> "parse_date", keys |-> <<>>]
KeyError(k) == [exc |-> "KeyError", what |-> "pop", keys |-> <<k>>]
NotADictError == [exc |-> "TypeError", what |-> "not a mapping", keys |-> <<>>]
ConcatError == [exc |-> "TypeError", what |-> "endpoint", keys |-> <<>>]
NoContextError == [exc |-> "AttributeError", what |-> "_get_response", keys |-> <<>>]
RequestError == [exc |-> "RequestError", what |-> "_get_response", keys |-> <<>>]

---------------------------------------------------------------------------
\* MonzoObject.__init__ and the _parse_special_fields overrides.  A machine
\* state m is [heap, objs, err]; each operator returns the machine state the
\* code leaves, also when it raises (m.err is then the exception).

RawCell(o) == IF o = "self" THEN "@raw" ELSE "@mraw"
CopyCell(o) == IF o = "self" THEN "@copy" ELSE "@mcopy"

\* variant: no copy is made, the same dict is used (data for data.copy())
DictAlias(h, from, site) == [heap |-> h, ref |-> from]

\* dict.copy(): a new dict, in the cell of the allocation site, with the same
\* keys and values (a shallow copy: a nested dict is shared)
DictCopy(h, from, site) == [heap |-> (site :> h[from]) @@ h, ref |-> site]

\* variant: a key whose value is empty counts as missing (if not data.get(k))
MissingKeysFalsy(cls, d) ==
    SelectSeq(RequiredKeys[cls],
              LAMBDA k : k \notin DOMAIN d \/ d[k] \in {"", None, "#0", "False"})

\* variant: raises only when every required key is missing (all for any)
MissingKeysAll(cls, d) ==
    IF \A k \in Range(RequiredKeys[cls]) : k \notin DOMAIN d
    THEN RequiredKeys[cls] ELSE <<>>

\* missing_keys = [k for k in self._required_keys if k not in data]
MissingKeys(cls, d) == SelectSeq(RequiredKeys[cls], LAMBDA k : k \notin DOMAIN d)

\* self.<k> = parse_date(data.pop(<k>))
PopParseDate(m, o, d, k) ==
    IF k \notin DOMAIN m.heap[d] THEN [m EXCEPT !.err = KeyError(k)]
    ELSE LET v == m.heap[d][k]
             popped == [m EXCEPT !.heap[d] = DictPop(@, k)]
         IN  IF v \in DOMAIN ParseDate
             THEN [popped EXCEPT !.objs[o].dict = DictUpdate(@, k :> ParseDate[v])]
             ELSE [popped EXCEPT !.err = ParseDateError(v)]

\* variant: any settled key is parsed (if 'settled' in data)
SettledPresent(h, d) == "settled" \in DOMAIN h[d]

\* if data.get('settled'):
SettledGiven(h, d) == "settled" \in DOMAIN h[d] /\ Truthy(h, h[d]["settled"])

\* variant: the type test alone (if not isinstance(data['merchant'], six.text_type))
MerchantNotText(h, d) ==
    "merchant" \in DOMAIN h[d] /\ ~IsText(h[d]["merchant"])

\* if (data.get('merchant') and not isinstance(data['merchant'], six.text_type)):
MerchantGiven(h, d) ==
    /\ "merchant" \in DOMAIN h[d]
    /\ Truthy(h, h[d]["merchant"])
    /\ ~IsText(h[d]["merchant"])

\* variant: the transaction's context is handed on to the merchant
MerchantContextShared(context) == context

\* MonzoMerchant(data=...) passes no context
MerchantContext(context) == None

RECURSIVE ObjInit(_, _, _, _)

ParseMerchant(m, o, d) ==
    IF ~MerchantGiven(m.heap, d) THEN m
    ELSE LET v == m.heap[d]["merchant"]
             popped == [m EXCEPT !.heap[d] = DictPop(@, "merchant"),
                                 !.objs.merchant = NewObject("MonzoMerchant")]
             built == ObjInit(popped, "merchant", v, MerchantContext(m.objs[o].ctx))
         IN  IF built.err # NoErr THEN built
             ELSE [built EXCEPT !.objs[o].dict = DictUpdate(@, "merchant" :> MerchantObject)]

ParseSettled(m, o, d) ==
    IF SettledGiven(m.heap, d) THEN PopParseDate(m, o, d, "settled") ELSE m

ParseSpecialFields(m, o, d) ==
    LET cls == m.objs[o].cls
    IN  CASE cls \in {"MonzoAccount", "MonzoPot", "MonzoMerchant"} ->
                PopParseDate(m, o, d, "created")
          [] cls = "MonzoTransaction" ->
                LET m1 == PopParseDate(m, o, d, "created")
                    m2 == IF m1.err # NoErr THEN m1 ELSE ParseSettled(m1, o, d)
                IN  IF m2.err # NoErr THEN m2 ELSE ParseMerchant(m2, o, d)
          [] OTHER -> m

ObjInit(m, o, data, context) ==
    IF data \notin Cells THEN [m EXCEPT !.err = NotADictError]
    ELSE LET missing_keys == MissingKeys(m.objs[o].cls, m.heap[data])
         IN  IF missing_keys # <<>>
             THEN [m EXCEPT !.err = MissingKeysError(missing_keys)]
             ELSE LET raw == DictCopy(m.heap, data, RawCell(o))
                      m1 == [m EXCEPT !.heap = raw.heap, !.objs[o].raw = raw.ref]
                      data_copy == DictCopy(m1.heap, data, CopyCell(o))
                      m2 == [m1 EXCEPT !.heap = data_copy.heap]
                      m3 == ParseSpecialFields(m2, o, data_copy.ref)
                  IN  IF m3.err # NoErr THEN m3
                      ELSE [m3 EXCEPT
                              !.objs[o].dict = DictUpdate(@, m3.heap[data_copy.ref]),
                              !.objs[o].ctx = context]

---------------------------------------------------------------------------
\* Inputs: the source mappings handed to the constructors and returned by
\* the API.  For each class: complete mappings with varied values, and
\* mappings that lack up to MaxAbsent required keys.

D1 == "2018-01-01T10:00:00Z"
D1b == "2018-01-01 10:00:00+00:00"
D2 == "2018-03-05T12:30:00Z"

AbsentSets(cls) ==
    {A \in SUBSET Range(RequiredKeys[cls]) : A # {} /\ Cardinality(A) <= MaxAbsent}

Lacking(cls, bases) ==
    {Restrict(b, DOMAIN b \ A) : b \in bases, A \in AbsentSets(cls)}

\* every required key present, every value null
Hollow(cls) == [k \in Range(RequiredKeys[cls]) |-> None]

AccountDefault == [id |-> "acc_1", description |-> "Current account", created |-> D1]

AccountMappings ==
    {[AccountDefault EXCEPT !.id = i, !.created = c] :
        i \in {"acc_1", None}, c \in {D1, D1b, "", "soon", None}}
    \cup {Hollow("MonzoAccount")}
    \cup Lacking("MonzoAccount", {AccountDefault, Hollow("MonzoAccount")})

BalanceDefault == [balance |-> "#100", currency |-> "GBP", spend_today |-> "#7"]

BalanceMappings ==
    {[BalanceDefault EXCEPT !.balance = b] : b \in {"#100", "#0", None}}
    \cup {Hollow("MonzoBalance")}
    \cup Lacking("MonzoBalance", {BalanceDefault, Hollow("MonzoBalance")})

PotDefault ==
    [id |-> "pot_1", name |-> "Holiday", created |-> D1, style |-> "beach_ball",
     balance |-> "#100", currency |-> "GBP", updated |-> D2, deleted |-> "False"]

PotOther ==
    [id |-> "pot_2", name |-> "Rainy day", created |-> D2, style |-> "cactus",
     balance |-> "#7", currency |-> "GBP", updated |-> D2, deleted |-> "False",
     goal_amount |-> "#100"]

PotMappings ==
    {[PotDefault EXCEPT !.id = i, !.created = c] @@ g :
        i \in {"pot_1", "pot_2", None}, c \in {D1, "soon"},
        g \in {EmptyDict, [goal_amount |-> "#7"]}}
    \cup Lacking("MonzoPot", {PotOther})

\* the body the API sends with an error status: none of the pot's keys
ErrorBody == [code |-> "bad_request.insufficient_funds", message |-> "Insufficient funds"]

\* what response.json() returns to deposit / withdraw: a pot, a pot short of
\* one required key, or an error body
PotResponses ==
    {d \in PotMappings : MissingKeys("MonzoPot", d) = <<>>}
    \cup {DictPop(PotOther, k) : k \in Range(RequiredKeys["MonzoPot"])}
    \cup {ErrorBody}

MerchantDefault ==
    [address |-> "1 High Street", created |-> D1, group_id |-> "grp_1",
     id |-> "merch_1", logo |-> "logo.png", emoji |-> ":coffee:",
     name |-> "Cafe", category |-> "eating_out"]

MerchantMappings ==
    {[MerchantDefault EXCEPT !.created = c] : c \in {D1, ""}}
    \cup {EmptyDict}
    \cup Lacking("MonzoMerchant", {MerchantDefault})

TransactionDefault ==
    [amount |-> "#100", created |-> D1, currency |-> "GBP",
     description |-> "Coffee", id |-> "tx_1", merchant |-> "merch_1",
     metadata |-> None, notes |-> "", is_load |-> "False"]

TransactionComplete ==
    {[TransactionDefault EXCEPT !.created = c, !.merchant = mch] @@ st :
        c \in {D1, "soon", None},
        mch \in {"merch_1", "", None, "#7", "@nested"},
        st \in {EmptyDict} \cup {[settled |-> v] : v \in {D2, "", None, "soon"}}}

TransactionLacking ==
    Lacking("MonzoTransaction",
            {TransactionDefault, Hollow("MonzoTransaction"),
             [TransactionDefault EXCEPT !.merchant = "@nested"]})

\* a source mapping of a transaction with the merchant object it refers to
MerchantOf(d) == "merchant" \in DOMAIN d /\ d["merchant"] = "@nested"

TransactionInputs ==
    {[data |-> d, nested |-> n] :
        d \in {t \in TransactionComplete : MerchantOf(t)}, n \in MerchantMappings}
    \cup {[data |-> d, nested |-> n] :
        d \in TransactionLacking,
        n \in {MerchantDefault, Restrict(MerchantDefault, {"id", "name"})}}
    \cup {[data |-> d, nested |-> EmptyDict] :
        d \in {t \in TransactionComplete : ~MerchantOf(t)}}

Inputs(cls) ==
    CASE cls = "MonzoAccount" -> {[data |-> d, nested |-> EmptyDict] : d \in AccountMappings}
      [] cls = "MonzoBalance" -> {[data |-> d, nested |-> EmptyDict] : d \in BalanceMappings}
      [] cls = "MonzoPot" -> {[data |-> d, nested |-> EmptyDict] : d \in PotMappings}
      [] cls = "MonzoMerchant" -> {[data |-> d, nested |-> EmptyDict] : d \in MerchantMappings}
      [] OTHER -> TransactionInputs

Contexts == {None, "ctx_1", "ctx_2"}

CallArgs ==
    {[amount |-> 100, account |-> "acc_1", dedupe |-> "dd_1"],
     [amount |-> 7, account |-> "acc_2", dedupe |-> "dd_2"]}

---------------------------------------------------------------------------
\* State and actions

NoRequest == [ctx |-> None, method |-> "", endpoint |-> <<>>, body |-> EmptyDict]
\* last: the most recent call, as the caller made it (op, class, a snapshot of
\* the mapping passed or returned, the context, the arguments) and how far a
\* pot call got ("early": it raised before the request, "raised": the request
\* raised, "response": a response came back)
NoCall == [op |-> "none", cls |-> "none", data |-> EmptyDict, nested |-> EmptyDict,
           ctx |-> None, args |-> EmptyDict, outcome |-> ""]

Init ==
    /\ heap = EmptyDict
    /\ objs = [self |-> NoObject, merchant |-> NoObject]
    /\ err = NoErr
    /\ sent = 0
    /\ lastReq = NoRequest
    /\ calls = 0
    /\ last = NoCall

\* cells that outlive a call: the locals data_copy die when __init__ returns
Live(h) == Restrict(h, DOMAIN h \ {"@copy", "@mcopy"})

\* cls(data, context): the caller's mapping is in "@src", a merchant object
\* inside it in "@nested"
Construct(cls, in, context) ==
    /\ last.op = "none"
    /\ LET h0 == IF MerchantOf(in.data) \/ in.nested # EmptyDict
                 THEN ("@src" :> in.data) @@ ("@nested" :> in.nested)
                 ELSE ("@src" :> in.data)
           m0 == [heap |-> h0,
                  objs |-> [self |-> NewObject(cls), merchant |-> NoObject],
                  err |-> NoErr]
       IN  \E m1 \in {ObjInit(m0, "self", "@src", context)} :
              /\ heap' = Live(m1.heap)
              /\ objs' = m1.objs
              /\ err' = m1.err
    /\ last' = [NoCall EXCEPT !.op = "construct", !.cls = cls, !.data = in.data,
                              !.nested = in.nested, !.ctx = context]
    /\ UNCHANGED <<sent, lastReq, calls>>

\* the caller later removes a key from, or adds a key to, its own mapping
MutateSource(k) ==
    /\ last.op = "construct"
    /\ err = NoErr
    /\ heap' = [heap EXCEPT !["@src"] =
                   IF k \in DOMAIN @ THEN DictPop(@, k) ELSE DictUpdate(@, k :> "later")]
    /\ last' = [last EXCEPT !.op = "mutate"]
    /\ UNCHANGED <<objs, err, sent, lastReq, calls>>

MutableKeys == {"id", "created", "merchant", "later_key"}

\* variant: the body of withdraw pasted into deposit
DepositBodyPasted(a) ==
    [destination_account_id |-> a.account, amount |-> a.amount, dedupe_id |-> a.dedupe]

DepositBody(a) ==
    [source_account_id |-> a.account, amount |-> a.amount, dedupe_id |-> a.dedupe]

WithdrawBody(a) ==
    [destination_account_id |-> a.account, amount |-> a.amount, dedupe_id |-> a.dedupe]

\* '/pots/' + self.id + '/<op>'
Endpoint(id, op) == <<"/pots/", id, "/" \o op>>

\* variant: the context is not handed on (self.__init__(data=response.json()))
CallContextDefault(o) == None

\* context=self._context
CallContext(o) == o.ctx

\* self.__init__(data=response.json(), context=self._context)
Rehydrate(m, response) ==
    ObjInit([m EXCEPT !.heap = ("@resp" :> response) @@ @], "self", "@resp",
            CallContext(m.objs.self))

\* The body shared by deposit and withdraw: the endpoint is built, the
\* request goes through the context, the pot is re-initialised from the
\* response.  outcome is what the context does: it raises, or it returns a
\* response whose json() is the mapping outcome.data.  Calls are made on a
\* pot that was constructed (a failed construction yields no pot), at most
\* MaxCalls of them; a run that changes the caller's mapping ends there.
PotCall(op, body, a, outcome) ==
    /\ last.op \in {"construct", "deposit", "withdraw"}
    /\ last.op = "construct" => err = NoErr
    /\ calls < MaxCalls
    /\ calls' = calls + 1
    /\ LET Requested == IsText(GetAttr(objs.self, "id")) /\ objs.self.ctx # None IN
       last' = [NoCall EXCEPT !.op = op, !.cls = "MonzoPot", !.args = a,
                  !.ctx = objs.self.ctx,
                  !.data = IF Requested /\ ~outcome.raises
                           THEN outcome.data ELSE EmptyDict,
                  !.outcome = IF ~Requested THEN "early"
                              ELSE IF outcome.raises THEN "raised" ELSE "response"]
    /\ LET id == GetAttr(objs.self, "id")
       IN  IF ~IsText(id)
           THEN /\ err' = ConcatError
                /\ UNCHANGED <<heap, objs, sent, lastReq>>
           ELSE IF objs.self.ctx = None
           THEN /\ err' = NoContextError
                /\ UNCHANGED <<heap, objs, sent, lastReq>>
           ELSE /\ sent' = sent + 1
                /\ lastReq' = [ctx |-> objs.self.ctx, method |-> "put",
                               endpoint |-> Endpoint(id, op), body |-> body]
                /\ IF outcome.raises
                   THEN /\ err' = RequestError
                        /\ UNCHANGED <<heap, objs>>
                   ELSE \E m1 \in {Rehydrate([heap |-> heap, objs |-> objs,
                                                 err |-> NoErr], outcome.data)} :
                           /\ heap' = Live(m1.heap)
                           /\ objs' = m1.objs
                           /\ err' = m1.err

Outcomes ==
    {[raises |-> TRUE, data |-> EmptyDict]}
    \cup {[raises |-> FALSE, data |-> d] : d \in PotResponses}

\* MonzoPot.deposit(amount, account, dedupe)
Deposit(a, outcome) ==
    /\ objs.self.cls = "MonzoPot"
    /\ PotCall("deposit", DepositBody(a), a, outcome)

\* MonzoPot.withdraw(amount, account, dedupe)
Withdraw(a, outcome) ==
    /\ objs.self.cls = "MonzoPot"
    /\ PotCall("withdraw", WithdrawBody(a), a, outcome)

Next ==
    \/ \E cls \in Classes, context \in Contexts :
          \E in \in Inputs(cls) : Construct(cls, in, context)
    \/ \E k \in MutableKeys : MutateSource(k)
    \/ \E a \in CallArgs, outcome \in Outcomes : Deposit(a, outcome)
    \/ \E a \in CallArgs, outcome \in Outcomes : Withdraw(a, outcome)

Spec == Init /\ [][Next]_vars

---------------------------------------------------------------------------
\* Vocabulary of the properties, stated on the caller's side: the mapping the
\* caller passed (last.data, last.nested) and what the caller sees after.

Self == objs.self

Constructing == last.op = "construct"
Constructed == last.op = "construct" /\ err = NoErr

\* the required keys of cls that mapping d does not have
Absent(cls, d) == {k \in Range(RequiredKeys[cls]) : k \notin DOMAIN d}

Position(cls, k) == CHOOSE i \in DOMAIN RequiredKeys[cls] : RequiredKeys[cls][i] = k

\* keys lists exactly the keys of A, in the order of cls's required-key list
NamesInOrder(keys, cls, A) ==
    /\ Range(keys) = A
    /\ Len(keys) = Cardinality(A)
    /\ \A i, j \in DOMAIN keys : i < j => Position(cls, keys[i]) < Position(cls, keys[j])

ValidationError == err.exc = "ValueError" /\ err.what = "missing keys"

IsDatetime(v) == v \in Datetimes

Empty(v) == v \in {"", None}

\* a transaction mapping whose own keys are all there and whose created and
\* settled values parse, so that construction gets to the merchant field
ReachesMerchant(d) ==
    /\ Absent("MonzoTransaction", d) = {}
    /\ d["created"] \in DOMAIN ParseDate
    /\ "settled" \in DOMAIN d =>
          d["settled"] \in DOMAIN ParseDate \cup {"", None}

\* the caller passed a transaction mapping with a non-empty merchant object
\* that lacks Merchant keys
MerchantLacksKeys ==
    /\ Constructing /\ last.cls = "MonzoTransaction"
    /\ MerchantOf(last.data)
    /\ last.nested # EmptyDict
    /\ Absent("MonzoMerchant", last.nested) # {}

---------------------------------------------------------------------------
\* C1 (as stated): construction fails with the validation error if and only
\* if a required key of the constructed type is absent from the mapping; the
\* error names the absent keys in required-list order and nothing has been
\* set on the object.
C1_AsStated ==
    Constructing =>
        /\ ValidationError <=> Absent(last.cls, last.data) # {}
        /\ ValidationError =>
              /\ NamesInOrder(err.keys, last.cls, Absent(last.cls, last.data))
              /\ Self.dict = EmptyDict /\ Self.raw = "unset" /\ Self.ctx = "unset"

\* C1 (amended): the validation error naming the type's own absent keys is
\* raised exactly when a required key of the type is absent (presence only),
\* before anything is set on the object; the only other validation error is
\* the one a Transaction passes on from its nested Merchant, raised exactly
\* when the Transaction's own keys are present, created and settled parse, and
\* the non-empty merchant object lacks Merchant keys, which it names in order.
C1_Validation ==
    Constructing =>
        /\ Absent(last.cls, last.data) # {} =>
              /\ ValidationError
              /\ NamesInOrder(err.keys, last.cls, Absent(last.cls, last.data))
              /\ Self.dict = EmptyDict /\ Self.raw = "unset" /\ Self.ctx = "unset"
        /\ (ValidationError /\ Absent(last.cls, last.data) = {}) <=>
              (MerchantLacksKeys /\ ReachesMerchant(last.data))
        /\ (ValidationError /\ Absent(last.cls, last.data) = {}) =>
              /\ NamesInOrder(err.keys, "MonzoMerchant",
                              Absent("MonzoMerchant", last.nested))
              /\ objs.merchant.dict = EmptyDict /\ objs.merchant.raw = "unset"

\* an Account mapping with a null description and no id and no created is
\* rejected, and the error names id, created
C1_Witness ==
    /\ Constructing /\ last.cls = "MonzoAccount"
    /\ last.data = [description |-> None]
    /\ ValidationError /\ err.keys = <<"id", "created">>

---------------------------------------------------------------------------
\* the pot call that has just ended came back with a response and the pot
\* was re-initialised from it without an exception
Called == last.op \in {"deposit", "withdraw"}
Rehydrated == Called /\ last.outcome = "response" /\ err = NoErr

\* the value a record holds for key k of mapping d when k is a field the
\* class parses
Mapped(d, k) == IF k = "created" THEN ParseDate[d[k]] ELSE d[k]

\* C2: after a successful construction or re-hydration, each of created,
\* updated and settled that the mapping carries as non-empty text is held as
\* a parsed timestamp.
C2_SpecialFieldsParsed ==
    (Constructed \/ Rehydrated) =>
        \A k \in {"created", "updated", "settled"} :
            (k \in DOMAIN last.data /\ IsText(last.data[k]) /\ last.data[k] # "")
                => (k \in DOMAIN Self.dict /\ IsDatetime(Self.dict[k]))

\* C3 (as stated): a constructed Transaction holds a text merchant unchanged
\* and holds a Merchant record, never the raw object, for a merchant object,
\* the empty object included.
C3_AsStated ==
    (Constructed /\ last.cls = "MonzoTransaction") =>
        /\ IsText(last.data["merchant"]) => Self.dict["merchant"] = last.data["merchant"]
        /\ MerchantOf(last.data) =>
              /\ Self.dict["merchant"] = MerchantObject
              /\ objs.merchant.cls = "MonzoMerchant"

\* C3 (amended): a text merchant and an empty merchant value (null, empty
\* text, the empty object) are held unchanged, the empty object as the raw
\* object itself; a non-empty merchant object is replaced by the Merchant
\* record built from it.  Construction succeeds in the first two cases
\* whenever it gets to the merchant field.
C3_Merchant ==
    (Constructing /\ last.cls = "MonzoTransaction" /\ ReachesMerchant(last.data)) =>
        LET v == last.data["merchant"]
        IN  /\ (IsText(v) \/ Empty(v) \/ (MerchantOf(last.data) /\ last.nested = EmptyDict))
                  => (err = NoErr /\ Self.dict["merchant"] = v
                      /\ objs.merchant = NoObject)
            /\ (err = NoErr /\ MerchantOf(last.data) /\ last.nested # EmptyDict)
                  => /\ Self.dict["merchant"] = MerchantObject
                     /\ objs.merchant.cls = "MonzoMerchant"
                     /\ heap[objs.merchant.raw] = last.nested
                     /\ objs.merchant.dict =
                           [k \in DOMAIN last.nested |-> Mapped(last.nested, k)]

\* a transaction built from a mapping whose merchant is the empty object
\* holds that object itself
C3_Witness ==
    /\ Constructed /\ last.cls = "MonzoTransaction"
    /\ MerchantOf(last.data) /\ last.nested = EmptyDict
    /\ Self.dict["merchant"] = "@nested"

\* the request deposit / withdraw is to issue for the arguments of the call
\* that has just been made on the pot as it was
ExpectedRequest ==
    [ctx |-> Self.ctx, method |-> "put",
     endpoint |-> <<"/pots/", GetAttr(Self, "id"), "/" \o last'.op>>,
     body |-> IF last'.op = "deposit"
              THEN [source_account_id |-> last'.args.account,
                    amount |-> last'.args.amount, dedupe_id |-> last'.args.dedupe]
              ELSE [destination_account_id |-> last'.args.account,
                    amount |-> last'.args.amount, dedupe_id |-> last'.args.dedupe]]

\* C4 (as stated): every call to deposit or withdraw issues exactly one
\* request through the pot's context, a PUT to the pot's endpoint with the
\* arguments as passed.
C4_AsStated ==
    [][calls' = calls + 1 => (sent' = sent + 1 /\ lastReq' = ExpectedRequest)]_vars

\* C4 (amended): a call on a pot that has a context and a text id issues
\* exactly one request, whatever the outcome; a call on a pot without a
\* context or whose id is not text raises before any request is issued.
C4_OneRequest ==
    [][calls' = calls + 1 =>
         IF Self.ctx # None /\ IsText(GetAttr(Self, "id"))
         THEN sent' = sent + 1 /\ lastReq' = ExpectedRequest
         ELSE sent' = sent /\ lastReq' = lastReq /\ err' # NoErr
              /\ objs' = objs /\ heap' = heap]_vars

\* two calls made, two requests issued, the second of them a withdraw whose
\* response failed validation
C4_Witness ==
    /\ calls = 2 /\ sent = 2
    /\ last.op = "withdraw" /\ last.outcome = "response" /\ ValidationError
    /\ lastReq.body = [destination_account_id |-> "acc_2", amount |-> 7,
                       dedupe_id |-> "dd_2"]

C6_NoStaleAttributes ==
    ((Constructed /\ last.cls = "MonzoPot") \/ Rehydrated) =>
        DOMAIN Self.dict = DOMAIN heap[Self.raw]

\* a transaction mapping that is fine apart from what it says of settled
FineButSettled(d) ==
    /\ Absent("MonzoTransaction", d) = {}
    /\ d["created"] \in DOMAIN ParseDate
    /\ IsText(d["merchant"])

\* C7: settled is not required; a constructed Transaction holds settled as a
\* timestamp exactly when the mapping has a non-empty value for it, has no
\* settled field when the key is absent, and holds an empty value unparsed.
C7_Settled ==
    (Constructing /\ last.cls = "MonzoTransaction") =>
        /\ (FineButSettled(last.data) /\ "settled" \notin DOMAIN last.data)
              => (err = NoErr /\ ~HasAttr(Self, "settled"))
        /\ (FineButSettled(last.data) /\ "settled" \in DOMAIN last.data
                /\ Empty(last.data["settled"]))
              => (err = NoErr /\ Self.dict["settled"] = last.data["settled"])
        /\ (FineButSettled(last.data) /\ "settled" \in DOMAIN last.data
                /\ last.data["settled"] \in DOMAIN ParseDate)
              => (err = NoErr /\ Self.dict["settled"] = ParseDate[last.data["settled"]])
        /\ err = NoErr =>
              /\ "settled" \notin DOMAIN last.data <=> ~HasAttr(Self, "settled")
              /\ "settled" \in DOMAIN last.data =>
                    (IsDatetime(Self.dict["settled"]) <=> ~Empty(last.data["settled"]))

\* a transaction built from a mapping whose settled is null holds null
C7_Witness ==
    /\ Constructed /\ last.cls = "MonzoTransaction"
    /\ "settled" \in DOMAIN last.data /\ last.data["settled"] = None
    /\ Self.dict["settled"] = None

\* C8 (as stated): a non-empty merchant object that lacks Merchant keys makes
\* the Transaction's construction fail with the validation error naming the
\* missing Merchant keys; a nested Merchant has all its required keys and no
\* context.
C8_AsStated ==
    /\ MerchantLacksKeys =>
          /\ ValidationError
          /\ NamesInOrder(err.keys, "MonzoMerchant", Absent("MonzoMerchant", last.nested))
    /\ (Constructed /\ Self.cls = "MonzoTransaction"
            /\ objs.merchant.cls = "MonzoMerchant") =>
          /\ Absent("MonzoMerchant", heap[objs.merchant.raw]) = {}
          /\ Range(RequiredKeys["MonzoMerchant"]) \subseteq DOMAIN objs.merchant.dict
          /\ objs.merchant.ctx = None

\* C8 (amended): such a mapping always makes the construction fail; the
\* error is the validation error naming the missing Merchant keys when the
\* Transaction's own required keys are present and its created and settled
\* parse, and otherwise the earlier error: the validation error naming the
\* Transaction's own missing keys, or the error of the date parser.
C8_NestedMerchant ==
    /\ MerchantLacksKeys =>
          /\ err # NoErr
          /\ ReachesMerchant(last.data) =>
                /\ ValidationError
                /\ NamesInOrder(err.keys, "MonzoMerchant",
                                Absent("MonzoMerchant", last.nested))
          /\ Absent("MonzoTransaction", last.data) # {} =>
                /\ ValidationError
                /\ NamesInOrder(err.keys, "MonzoTransaction",
                                Absent("MonzoTransaction", last.data))
          /\ (Absent("MonzoTransaction", last.data) = {} /\ ~ReachesMerchant(last.data))
                => err.what = "parse_date"
    /\ (Constructed /\ Self.cls = "MonzoTransaction"
            /\ objs.merchant.cls = "MonzoMerchant") =>
          /\ Absent("MonzoMerchant", heap[objs.merchant.raw]) = {}
          /\ Range(RequiredKeys["MonzoMerchant"]) \subseteq DOMAIN objs.merchant.dict
          /\ objs.merchant.ctx = None

\* a transaction given a context and a settled date fails on a merchant
\* object that has neither created nor logo
C8_Witness ==
    /\ MerchantLacksKeys /\ ReachesMerchant(last.data) /\ last.ctx = "ctx_1"
    /\ "settled" \in DOMAIN last.data /\ last.data["settled"] = D2
    /\ ValidationError /\ err.keys = <<"created", "logo">>

\* C9: a response that lacks a required Pot key ends the call with the
\* validation error, the request having been issued once, and leaves the
\* pot's attributes, raw data and context as they were.
C9_RejectedResponse ==
    [][(calls' = calls + 1 /\ last'.outcome = "response"
            /\ Absent("MonzoPot", last'.data) # {}) =>
         /\ ValidationError'
         /\ NamesInOrder(err'.keys, "MonzoPot", Absent("MonzoPot", last'.data))
         /\ sent' = sent + 1
         /\ objs' = objs
         /\ heap'[Self'.raw] = heap[Self.raw]]_vars

\* a pot built with id pot_1 still has it after a response with id pot_2
\* and no name was rejected
C9_Witness ==
    /\ Called /\ last.outcome = "response" /\ ValidationError
    /\ err.keys = <<"name">> /\ last.data["id"] = "pot_2"
    /\ Self.dict["id"] = "pot_1" /\ heap[Self.raw]["id"] = "pot_1"
    /\ sent = 1

\* C10: construction, successful or not, leaves the caller's mapping and a
\* merchant object inside it as they were; the stored raw data of a
\* constructed record equals the mapping, unparsed texts included, and is a
\* dict of its own, so that a later change of the caller's mapping changes
\* nothing of the record.
C10_SourceUntouched ==
    [][/\ Constructing' =>
            /\ heap'["@src"] = last'.data
            /\ "@nested" \in DOMAIN heap' => heap'["@nested"] = last'.nested
            /\ err' = NoErr =>
                  /\ Self'.raw # "@src"
                  /\ heap'[Self'.raw] = last'.data
                  /\ objs'.merchant.cls = "MonzoMerchant" =>
                        /\ objs'.merchant.raw # "@nested"
                        /\ heap'[objs'.merchant.raw] = last'.nested
       /\ last'.op = "mutate" =>
            /\ heap'["@src"] # heap["@src"]
            /\ objs' = objs
            /\ heap'[Self'.raw] = heap[Self.raw]
      ]_vars

\* the caller has removed created from its mapping after a transaction with
\* settled and a merchant object was built from it; the record still has all
\* three in its raw data, as the texts and the object given
C10_Witness ==
    /\ last.op = "mutate" /\ last.cls = "MonzoTransaction"
    /\ "created" \notin DOMAIN heap["@src"]
    /\ heap["@raw"]["created"] = D1
    /\ "settled" \in DOMAIN heap["@raw"] /\ heap["@raw"]["settled"] = D2
    /\ heap["@raw"]["merchant"] = "@nested"
    /\ DOMAIN heap["@nested"] = Range(RequiredKeys["MonzoMerchant"])
    /\ IsDatetime(Self.dict["created"])

====
